---- MODULE Spec2Model ----
(***************************************************************************)
(* The history commands of Dance (src/src/commands/history.ts): repeat,    *)
(* repeat_edit, recording_play, recording_start and recording_stop, run    *)
(* against the recorder's history log, and the API functions the file      *)
(* holds after them: run with its function cache (lines 223-382) and       *)
(* commands (lines 397-482).                                               *)
(*                                                                         *)
(* The recorder, its cursors, the registers and the command dispatcher are *)
(* collaborators whose code lives in other files; they are modelled from   *)
(* the specification text (sections 3, 4.1, 4.2, 5 and 6).                 *)
(*                                                                         *)
(* Log positions are 0-based as in the source: the entry at position p is  *)
(* log[p + 1], and the log end (one past the last entry) is Len(log).      *)
(* The log stays below its capacity in this model: MaxLog bounds the       *)
(* appends, so no entry is evicted.                                        *)
(***************************************************************************)
EXTENDS Integers, Sequences, FiniteSets, TLC

VARIABLES
  log,                  \* the recorder's history log, oldest entry first
  recordingPerRegister, \* line 164: register -> its active recording
  registerRecording,    \* register -> the completed recording it holds
  pc,                   \* the asynchronous command in flight: idle, await,
                        \* done, failed
  call,                 \* the arguments of the command in flight
  frame,                \* the local variables of the command in flight
  shouldRecord,         \* the context's flag, cleared by _.doNotRecord()
  cancelRequested,      \* the context's cancellation token
  error,                \* the error the command in flight has thrown
  trace,                \* the replay calls the command in flight has made
  logAtCall,            \* the log as it was when the command was called
  outcome,              \* what the step just taken returned, when it was a
                        \* call of recording_start or recording_stop
  walk,                 \* a cursor walked back and forth over the log
  canRunArbitraryCode,  \* line 291
  functionCache,        \* line 310: code -> [function, lastAccessTimestamp]
  now,                  \* Date.now()
  compiled,             \* what the last call of compileFunction, run,
                        \* clearCache or disable did
  batching              \* the invocation of commands in flight

historyVars == <<log, recordingPerRegister, registerRecording, pc, call, frame,
                 shouldRecord, cancelRequested, error, trace, logAtCall, outcome>>

runVars == <<canRunArbitraryCode, functionCache, now, compiled>>

\* What the history commands leave alone.
toolVars == <<walk, runVars, batching>>

vars == <<historyVars, walk, runVars, batching>>

----------------------------------------------------------------------------
(* Bounds of the model. *)

\* The longest log in SpecRepeat and in Spec.
MaxLog == 4

\* The longest log in SpecEdit.
MaxEditLog == 5

\* The longest log in SpecRecording.
MaxRecordingLog == 5

\* The largest number of repetitions.
MaxReps == 2

\* The longest log in SpecCursor.
MaxCursorLog == 3

\* The largest number of steps back, and then forth, of a cursor walk.
MaxWalk == 4

\* The largest number of advances of the clock in SpecRun.
MaxTicks == 2

\* Line 364: the default age of clearCache, 5 minutes in milliseconds.
DefaultOlderThanMs == 300000

\* The largest number of commands given to one call of commands.
MaxCommands == 3

----------------------------------------------------------------------------
(* Entries, descriptors and filters. *)

ExecuteCommand == "ExecuteCommand"

ChangeTextEditorMode == "ChangeTextEditorMode"

\* An entry: its variant tag, what it refers to (a descriptor's identifier
\* or a mode's name) and the argument captured with it.
CommandEntry(identifier, argument) ==
  [type |-> ExecuteCommand, ref |-> identifier, arg |-> argument]

ModeEntry(modeName) ==
  [type |-> ChangeTextEditorMode, ref |-> modeName, arg |-> 0]

\* The commands of this file are all marked @noreplay (lines 53, 101, 143,
\* 170, 191): their descriptors have shouldBeReplayed = false.
HistoryCommands ==
  {"dance.history.repeat", "dance.history.repeat.edit",
   "dance.history.recording.play", "dance.history.recording.start",
   "dance.history.recording.stop"}

ShouldBeReplayed(identifier) == identifier \notin HistoryCommands

\* The entries live editing appends.
LiveEntries ==
  {CommandEntry("dance.seek", 1), CommandEntry("dance.seek", 2),
   CommandEntry("dance.select", 1),
   ModeEntry("normal"), ModeEntry("insert")}

\* Those of the specification of all the commands.
CoreEntries ==
  {CommandEntry("dance.seek", 1), ModeEntry("normal"), ModeEntry("insert")}

\* Those of the specification of the recording commands.
RecordingEntries ==
  {CommandEntry("dance.seek", 1), CommandEntry("dance.select", 1)}

\* The filters given to repeat: the default RegExp /.+/ (line 64), and two
\* strings.
Filters ==
  {[isString |-> FALSE, source |-> ".+"],
   [isString |-> TRUE, source |-> "seek"],
   [isString |-> TRUE, source |-> "undo"]}

\* Lines 66-68: a string filter becomes a RegExp with the "u" flag.
ToRegExp(filter) ==
  IF filter.isString
  THEN [source |-> filter.source, flags |-> "u"]
  ELSE [source |-> filter.source, flags |-> ""]

\* filter.test(identifier), line 80: an unanchored match.
RegExpTest(regexp, identifier) ==
  CASE regexp.source = ".+" -> TRUE
    [] regexp.source = "seek" -> identifier = "dance.seek"
    [] OTHER -> FALSE

Registers == {"arobase", "a"}

----------------------------------------------------------------------------
(* Cursor: a position in the log. *)

cursorFromEnd(lg) == Len(lg)

CursorIs(lg, p, variant) ==
  /\ p >= 0
  /\ p < Len(lg)
  /\ lg[p + 1].type = variant

CursorEntry(lg, p) == lg[p + 1]

\* previous(): [ok, pos]; at the log start it returns false and stays.
CursorPrevious(p) ==
  IF p = 0 THEN [ok |-> FALSE, pos |-> p] ELSE [ok |-> TRUE, pos |-> p - 1]

\* CursorNext taking the last entry for the log end.
CursorNextStoppingAtLastEntry(lg, p) ==
  IF p >= Len(lg) - 1 THEN [ok |-> FALSE, pos |-> p] ELSE [ok |-> TRUE, pos |-> p + 1]

\* next(): [ok, pos]; at the log end it returns false and stays.
CursorNext(lg, p) ==
  IF p >= Len(lg) THEN [ok |-> FALSE, pos |-> p] ELSE [ok |-> TRUE, pos |-> p + 1]

CursorIsBeforeOrEqual(p, q) == p <= q

\* A walk: the cursor's position, the position and the log it was created
\* on, the number k of steps asked for each way, and the calls of
\* previous() and of next() made so far.
NoWalk ==
  [created |-> FALSE, pos |-> 0, origin |-> 0, log |-> <<>>, k |-> 0,
   back |-> 0, forth |-> 0]

----------------------------------------------------------------------------
(* Recorder and dispatcher. *)

NoRecording == [active |-> FALSE, entries |-> <<>>, startedAt |-> 0]

NoCompleted == [held |-> FALSE, entries |-> <<>>, from |-> 0, to |-> 0]

\* Recorder.append on the sub-logs: every active recording gets the entry.
ActiveAppended(rpr, e) ==
  [r \in Registers |->
     IF rpr[r].active
     THEN [rpr[r] EXCEPT !.entries = Append(@, e)]
     ELSE rpr[r]]

\* What the dispatcher logs for a command of this file that returned.
OwnEntry(op) == CommandEntry(op, 0)

----------------------------------------------------------------------------
(* The command in flight. *)

NoCall ==
  [op |-> "none", repetitions |-> 0,
   filter |-> [isString |-> FALSE, source |-> ""], register |-> "none"]

NoFrame ==
  [i |-> 0, commandDescriptor |-> "", commandArgument |-> 0,
   startCursor |-> -1, endCursor |-> -1, cursor |-> -1,
   recording |-> NoCompleted]

NoError == [kind |-> "none", message |-> "", about |-> ""]

NoOutcome == [op |-> "none", register |-> "none", ok |-> TRUE, error |-> NoError]

\* The cancellation token: whether cancellation was requested, and during
\* which repetition of the command in flight.
NotCancelled == [requested |-> FALSE, during |-> 0]

\* One replay call: the log position of the cursor it was made on (-1 when
\* it was not made on a cursor) and the entries it replays.
ReplayCall(p, entries) == [pos |-> p, entries |-> entries]

\* The code strings given to compileFunction and run: one that matches a
\* safe expression (line 318), one that matches none, and one that matches
\* none and is no function body.
Codes == {"i + 1", "return $", "return ("}

\* A function of the cache is told by the code and the parameter list it was
\* compiled with.
NotCached == [cached |-> FALSE, parameters |-> <<>>, lastAccessTimestamp |-> 0]

\* What a call returned or threw: the functions it compiled, in order.
NoCompiled ==
  [op |-> "none", codes |-> <<>>, names |-> <<>>, ok |-> TRUE,
   message |-> "", functions |-> <<>>]

\* No invocation of commands is in flight.
NoBatching ==
  [pc |-> "idle", commands |-> <<>>, i |-> 0, batches |-> <<>>,
   currentBatch |-> <<>>, b |-> 0, results |-> <<>>, executed |-> <<>>,
   message |-> ""]

Init ==
  /\ log = <<>>
  /\ recordingPerRegister = [r \in Registers |-> NoRecording]
  /\ registerRecording = [r \in Registers |-> NoCompleted]
  /\ pc = "idle"
  /\ call = NoCall
  /\ frame = NoFrame
  /\ shouldRecord = TRUE
  /\ cancelRequested = NotCancelled
  /\ error = NoError
  /\ trace = <<>>
  /\ logAtCall = <<>>
  /\ outcome = NoOutcome
  /\ walk = NoWalk
  /\ canRunArbitraryCode = TRUE
  /\ functionCache = [code \in Codes |-> NotCached]
  /\ now = 0
  /\ compiled = NoCompiled
  /\ batching = NoBatching

\* Live editing appends an entry of the set given, between commands or
\* while a command awaits a replay, up to the log length given.
LiveInput(entries, maxLog) ==
  /\ pc \in {"idle", "await"}
  /\ Len(log) < maxLog
  /\ \E e \in entries :
       /\ log' = Append(log, e)
       /\ recordingPerRegister' = ActiveAppended(recordingPerRegister, e)
  /\ outcome' = NoOutcome
  /\ UNCHANGED toolVars
  /\ UNCHANGED <<registerRecording, pc, call, frame, shouldRecord,
                 cancelRequested, error, trace, logAtCall>>

\* The context's cancellation is requested while a replay is awaited.
RequestCancellation ==
  /\ pc = "await"
  /\ ~cancelRequested.requested
  /\ cancelRequested' = [requested |-> TRUE, during |-> frame.i]
  /\ outcome' = NoOutcome
  /\ UNCHANGED toolVars
  /\ UNCHANGED <<log, recordingPerRegister, registerRecording, pc, call,
                 frame, shouldRecord, error, trace, logAtCall>>

\* DoNotRecordCalled with repeat calling _.doNotRecord() as well.
DoNotRecordCalledByRepeatToo(op) ==
  op \in {"dance.history.repeat.edit", "dance.history.repeat"}

\* Whether the command calls _.doNotRecord(): repeat_edit does (line 104),
\* repeat (lines 60-95) and recording_play (lines 145-162) do not.
DoNotRecordCalled(op) == op = "dance.history.repeat.edit"

\* The command returns to the dispatcher, which logs the invocation unless
\* the context's flag was cleared.
Returns(op, record, maxLog) ==
  /\ pc' = "done"
  /\ IF record
     THEN /\ Len(log) < maxLog
          /\ log' = Append(log, OwnEntry(op))
          /\ recordingPerRegister' = ActiveAppended(recordingPerRegister, OwnEntry(op))
     ELSE UNCHANGED <<log, recordingPerRegister>>

\* The command throws before any await.
Throws(e) ==
  /\ pc' = "failed"
  /\ error' = e
  /\ frame' = NoFrame
  /\ trace' = <<>>
  /\ UNCHANGED <<log, recordingPerRegister>>

\* An asynchronous command is called: a fresh context.
Called(c) ==
  /\ pc = "idle"
  /\ call' = c
  /\ shouldRecord' = ~DoNotRecordCalled(c.op)
  /\ cancelRequested' = NotCancelled
  /\ logAtCall' = log
  /\ outcome' = NoOutcome
  /\ UNCHANGED toolVars
  /\ UNCHANGED registerRecording

\* The awaited replay fails: the await throws, and the async function
\* rejects with the same reason.
Rejections == {"command failed", "Canceled"}

Rejected(reason) == [kind |-> "rejected", message |-> reason, about |-> ""]

\* AwaitThrows with the failed replay called again instead of the throw.
AwaitThrowsAndRetries(op) ==
  /\ pc = "await"
  /\ call.op = op
  /\ \E reason \in Rejections : error' = Rejected(reason)
  /\ trace' = Append(trace, trace[Len(trace)])
  /\ outcome' = NoOutcome
  /\ UNCHANGED toolVars
  /\ UNCHANGED <<log, recordingPerRegister, registerRecording, pc, call,
                 frame, shouldRecord, cancelRequested, logAtCall>>

AwaitThrows(op) ==
  /\ pc = "await"
  /\ call.op = op
  /\ \E reason \in Rejections : error' = Rejected(reason)
  /\ pc' = "failed"
  /\ outcome' = NoOutcome
  /\ UNCHANGED toolVars
  /\ UNCHANGED <<log, recordingPerRegister, registerRecording, call, frame,
                 shouldRecord, cancelRequested, trace, logAtCall>>

----------------------------------------------------------------------------
(* repeat, lines 60-95. *)

\* RepeatSearch without the test of shouldBeReplayed.
RECURSIVE RepeatSearchAnyDescriptor(_, _, _)
RepeatSearchAnyDescriptor(lg, p, regexp) ==
  IF /\ CursorIs(lg, p, ExecuteCommand)
     /\ RegExpTest(regexp, CursorEntry(lg, p).ref)
  THEN [found |-> TRUE, pos |-> p]
  ELSE IF ~CursorPrevious(p).ok
       THEN [found |-> FALSE, pos |-> p]
       ELSE RepeatSearchAnyDescriptor(lg, CursorPrevious(p).pos, regexp)

\* Lines 75-90: the backward search from cursor position p. It returns
\* [found, pos]; found = FALSE is the throw of line 88.
RECURSIVE RepeatSearch(_, _, _)
RepeatSearch(lg, p, regexp) ==
  IF /\ CursorIs(lg, p, ExecuteCommand)
     /\ ShouldBeReplayed(CursorEntry(lg, p).ref)
     /\ RegExpTest(regexp, CursorEntry(lg, p).ref)
  THEN [found |-> TRUE, pos |-> p]
  ELSE IF ~CursorPrevious(p).ok
       THEN [found |-> FALSE, pos |-> p]
       ELSE RepeatSearch(lg, CursorPrevious(p).pos, regexp)

\* Line 92: the loop condition.
RepeatLoopContinues(i, repetitions) == i < repetitions

\* Line 93: commandDescriptor.replay(_, commandArgument).
DescriptorReplay(descriptor, argument) ==
  ReplayCall(-1, <<CommandEntry(descriptor, argument)>>)

\* The call of repeat, up to its first await or its return.
repeat(maxLog) ==
  \E repetitions \in 0..MaxReps, filter \in Filters :
    LET regexp == ToRegExp(filter)
        found == RepeatSearch(log, cursorFromEnd(log), regexp)
        entry == CursorEntry(log, found.pos)
    IN  /\ Called([NoCall EXCEPT !.op = "dance.history.repeat",
                                 !.repetitions = repetitions,
                                 !.filter = filter])
        /\ IF ~found.found
           THEN Throws([kind |-> "Error",
                        message |-> "no previous command matching",
                        about |-> regexp.source])
           ELSE /\ frame' = [NoFrame EXCEPT !.commandDescriptor = entry.ref,
                                            !.commandArgument = entry.arg]
                /\ error' = NoError
                /\ IF RepeatLoopContinues(0, repetitions)
                   THEN /\ pc' = "await"
                        /\ trace' = <<DescriptorReplay(entry.ref, entry.arg)>>
                        /\ UNCHANGED <<log, recordingPerRegister>>
                   ELSE /\ trace' = <<>>
                        /\ Returns("dance.history.repeat", shouldRecord', maxLog)

\* repeat_resume with the search run again before every replay.
repeat_resume_searching_again(maxLog) ==
  /\ pc = "await"
  /\ call.op = "dance.history.repeat"
  /\ LET found == RepeatSearch(log, cursorFromEnd(log), ToRegExp(call.filter))
         entry == CursorEntry(log, found.pos)
     IN  /\ found.found
         /\ frame' = [frame EXCEPT !.i = @ + 1,
                                   !.commandDescriptor = entry.ref,
                                   !.commandArgument = entry.arg]
         /\ IF RepeatLoopContinues(frame.i + 1, call.repetitions)
            THEN /\ trace' = Append(trace, DescriptorReplay(entry.ref, entry.arg))
                 /\ UNCHANGED <<log, recordingPerRegister, pc>>
            ELSE /\ Returns(call.op, shouldRecord, maxLog)
                 /\ UNCHANGED trace
  /\ outcome' = NoOutcome
  /\ UNCHANGED toolVars
  /\ UNCHANGED <<registerRecording, call, shouldRecord, cancelRequested,
                 error, logAtCall>>

\* repeat_resume with the loop left when cancellation was requested.
repeat_resume_cancellable(maxLog) ==
  /\ pc = "await"
  /\ call.op = "dance.history.repeat"
  /\ frame' = [frame EXCEPT !.i = @ + 1]
  /\ IF /\ RepeatLoopContinues(frame.i + 1, call.repetitions)
        /\ ~cancelRequested.requested
     THEN /\ trace' = Append(trace, DescriptorReplay(frame.commandDescriptor,
                                                     frame.commandArgument))
          /\ UNCHANGED <<log, recordingPerRegister, pc>>
     ELSE /\ Returns(call.op, shouldRecord, maxLog)
          /\ UNCHANGED trace
  /\ outcome' = NoOutcome
  /\ UNCHANGED toolVars
  /\ UNCHANGED <<registerRecording, call, shouldRecord, cancelRequested,
                 error, logAtCall>>

\* The awaited replay of line 93 completes: the loop goes on.
repeat_resume(maxLog) ==
  /\ pc = "await"
  /\ call.op = "dance.history.repeat"
  /\ frame' = [frame EXCEPT !.i = @ + 1]
  /\ IF RepeatLoopContinues(frame.i + 1, call.repetitions)
     THEN /\ trace' = Append(trace, DescriptorReplay(frame.commandDescriptor,
                                                     frame.commandArgument))
          /\ UNCHANGED <<log, recordingPerRegister, pc>>
     ELSE /\ Returns(call.op, shouldRecord, maxLog)
          /\ UNCHANGED trace
  /\ outcome' = NoOutcome
  /\ UNCHANGED toolVars
  /\ UNCHANGED <<registerRecording, call, shouldRecord, cancelRequested,
                 error, logAtCall>>

\* The awaited replay of line 93 fails.
repeat_rejected == AwaitThrows("dance.history.repeat")

----------------------------------------------------------------------------
(* repeat_edit, lines 103-137. *)

Undefined == -1

\* EditSearch with the end cursor cloned one position after the normal
\* entry, not one before it.
RECURSIVE EditSearchEndAfterNormal(_, _, _)
EditSearchEndAfterNormal(lg, p, endCursor) ==
  LET isMode == CursorIs(lg, p, ChangeTextEditorMode)
      modeName == CursorEntry(lg, p).ref
      notFound == [found |-> FALSE, start |-> Undefined, end |-> Undefined]
  IN  IF isMode /\ modeName = "normal"
      THEN LET q == CursorPrevious(p).pos
           IN  IF ~CursorPrevious(q).ok
               THEN notFound
               ELSE EditSearchEndAfterNormal(lg, CursorPrevious(q).pos,
                                             CursorNext(lg, p).pos)
      ELSE IF isMode /\ modeName = "insert" /\ endCursor # Undefined
      THEN [found |-> TRUE, start |-> CursorNext(lg, p).pos, end |-> endCursor]
      ELSE IF ~CursorPrevious(p).ok
           THEN notFound
           ELSE EditSearchEndAfterNormal(lg, CursorPrevious(p).pos, endCursor)

\* EditSearch stopping at an insert entry also when no end was captured.
RECURSIVE EditSearchWithoutEnd(_, _, _)
EditSearchWithoutEnd(lg, p, endCursor) ==
  LET isMode == CursorIs(lg, p, ChangeTextEditorMode)
      modeName == CursorEntry(lg, p).ref
      notFound == [found |-> FALSE, start |-> Undefined, end |-> Undefined]
  IN  IF isMode /\ modeName = "normal"
      THEN LET q == CursorPrevious(p).pos
           IN  IF ~CursorPrevious(q).ok
               THEN notFound
               ELSE EditSearchWithoutEnd(lg, CursorPrevious(q).pos, q)
      ELSE IF isMode /\ modeName = "insert"
      THEN [found |-> TRUE, start |-> CursorNext(lg, p).pos,
            end |-> IF endCursor # Undefined THEN endCursor ELSE p]
      ELSE IF ~CursorPrevious(p).ok
           THEN notFound
           ELSE EditSearchWithoutEnd(lg, CursorPrevious(p).pos, endCursor)

\* EditSearch going on from the entry before the normal entry, which line
\* 127 steps over.
RECURSIVE EditSearchEveryEntry(_, _, _)
EditSearchEveryEntry(lg, p, endCursor) ==
  LET isMode == CursorIs(lg, p, ChangeTextEditorMode)
      modeName == CursorEntry(lg, p).ref
      notFound == [found |-> FALSE, start |-> Undefined, end |-> Undefined]
  IN  IF isMode /\ modeName = "normal"
      THEN LET q == CursorPrevious(p).pos
           IN  IF ~CursorPrevious(p).ok
               THEN notFound
               ELSE EditSearchEveryEntry(lg, q, q)
      ELSE IF isMode /\ modeName = "insert" /\ endCursor # Undefined
      THEN [found |-> TRUE, start |-> CursorNext(lg, p).pos, end |-> endCursor]
      ELSE IF ~CursorPrevious(p).ok
           THEN notFound
           ELSE EditSearchEveryEntry(lg, CursorPrevious(p).pos, endCursor)

\* Lines 111-130: the backward scan from cursor position p with the end
\* cursor captured so far. It returns [found, start, end]; found = FALSE is
\* the throw of line 128.
RECURSIVE EditSearch(_, _, _)
EditSearch(lg, p, endCursor) ==
  LET isMode == CursorIs(lg, p, ChangeTextEditorMode)
      modeName == CursorEntry(lg, p).ref
      notFound == [found |-> FALSE, start |-> Undefined, end |-> Undefined]
  IN  IF isMode /\ modeName = "normal"
      THEN \* lines 116-118, then line 127
           LET q == CursorPrevious(p).pos
           IN  IF ~CursorPrevious(q).ok
               THEN notFound
               ELSE EditSearch(lg, CursorPrevious(q).pos, q)
      ELSE IF isMode /\ modeName = "insert" /\ endCursor # Undefined
      THEN \* lines 120-123
           [found |-> TRUE, start |-> CursorNext(lg, p).pos, end |-> endCursor]
      ELSE IF ~CursorPrevious(p).ok
           THEN notFound
           ELSE EditSearch(lg, CursorPrevious(p).pos, endCursor)

\* Line 132: the outer loop condition.
EditLoopContinues(i, repetitions) == i < repetitions

\* Lines 132-133: from the start of repetition i, the next point where
\* Cursor.replay is called: [replay, i, cursor].
RECURSIVE EditPass(_, _, _, _)
EditPass(i, repetitions, startCursor, endCursor) ==
  IF ~EditLoopContinues(i, repetitions)
  THEN [replay |-> FALSE, i |-> i, cursor |-> Undefined]
  ELSE IF CursorIsBeforeOrEqual(startCursor, endCursor)
       THEN [replay |-> TRUE, i |-> i, cursor |-> startCursor]
       ELSE EditPass(i + 1, repetitions, startCursor, endCursor)

\* EditStep with the inner loop stopping before the end cursor.
EditStepExcludingEnd(lg, i, p, repetitions, startCursor, endCursor) ==
  LET q == CursorNext(lg, p).pos
  IN  IF q < endCursor
      THEN [replay |-> TRUE, i |-> i, cursor |-> q]
      ELSE EditPass(i + 1, repetitions, startCursor, endCursor)

\* EditStep with the inner loop running to the last entry of the log, not to
\* the end cursor.
EditStepToLogEnd(lg, i, p, repetitions, startCursor, endCursor) ==
  LET q == CursorNext(lg, p).pos
  IN  IF CursorIsBeforeOrEqual(q, Len(lg) - 1)
      THEN [replay |-> TRUE, i |-> i, cursor |-> q]
      ELSE EditPass(i + 1, repetitions, startCursor, endCursor)

\* Line 133 after a replay on cursor position p: cursor.next(), then the
\* inner loop condition.
EditStep(lg, i, p, repetitions, startCursor, endCursor) ==
  LET q == CursorNext(lg, p).pos
  IN  IF CursorIsBeforeOrEqual(q, endCursor)
      THEN [replay |-> TRUE, i |-> i, cursor |-> q]
      ELSE EditPass(i + 1, repetitions, startCursor, endCursor)

\* Line 134: cursor.replay(_) replays the entry the cursor is on.
CursorReplay(lg, p) == ReplayCall(p, <<CursorEntry(lg, p)>>)

repeat_edit(maxLog) ==
  \E repetitions \in 0..MaxReps :
    LET found == EditSearch(log, cursorFromEnd(log), Undefined)
        first == EditPass(0, repetitions, found.start, found.end)
    IN  /\ Called([NoCall EXCEPT !.op = "dance.history.repeat.edit",
                                 !.repetitions = repetitions])
        /\ IF ~found.found
           THEN Throws([kind |-> "Error",
                        message |-> "cannot find switch to normal or insert mode",
                        about |-> ""])
           ELSE /\ frame' = [NoFrame EXCEPT !.startCursor = found.start,
                                            !.endCursor = found.end,
                                            !.i = first.i,
                                            !.cursor = first.cursor]
                /\ error' = NoError
                /\ IF first.replay
                   THEN /\ pc' = "await"
                        /\ trace' = <<CursorReplay(log, first.cursor)>>
                        /\ UNCHANGED <<log, recordingPerRegister>>
                   ELSE /\ trace' = <<>>
                        /\ Returns("dance.history.repeat.edit", shouldRecord', maxLog)

\* The awaited replay of line 134 completes: the loops go on.
repeat_edit_resume(maxLog) ==
  /\ pc = "await"
  /\ call.op = "dance.history.repeat.edit"
  /\ LET step == EditStep(log, frame.i, frame.cursor, call.repetitions,
                          frame.startCursor, frame.endCursor)
     IN  /\ frame' = [frame EXCEPT !.i = step.i, !.cursor = step.cursor]
         /\ IF step.replay
            THEN /\ trace' = Append(trace, CursorReplay(log, step.cursor))
                 /\ UNCHANGED <<log, recordingPerRegister, pc>>
            ELSE /\ Returns(call.op, shouldRecord, maxLog)
                 /\ UNCHANGED trace
  /\ outcome' = NoOutcome
  /\ UNCHANGED toolVars
  /\ UNCHANGED <<registerRecording, call, shouldRecord, cancelRequested,
                 error, logAtCall>>

\* The awaited replay of line 134 fails.
repeat_edit_rejected == AwaitThrows("dance.history.repeat.edit")

----------------------------------------------------------------------------
(* recording_play, lines 145-162. *)


\* HoldsRecording without the validation.
HoldsRecordingAlways(recording) == TRUE

\* Line 155: recording !== undefined.
HoldsRecording(recording) == recording.held

\* PlayLoopContinues running the loop once more.
PlayLoopContinuesOnceMore(i, repetitions) == i <= repetitions

\* Line 159: the loop condition.
PlayLoopContinues(i, repetitions) == i < repetitions

\* Line 160: recording.replay(_) replays the whole recording.
RecordingReplay(recording) == ReplayCall(-1, recording.entries)

recording_play(maxLog) ==
  \E repetitions \in 0..MaxReps, register \in Registers :
    LET recording == registerRecording[register]
    IN  /\ Called([NoCall EXCEPT !.op = "dance.history.recording.play",
                                 !.repetitions = repetitions,
                                 !.register = register])
        /\ IF ~HoldsRecording(recording)
           THEN Throws([kind |-> "ArgumentError",
                        message |-> "does not hold a recording",
                        about |-> register])
           ELSE /\ frame' = [NoFrame EXCEPT !.recording = recording]
                /\ error' = NoError
                /\ IF PlayLoopContinues(0, repetitions)
                   THEN /\ pc' = "await"
                        /\ trace' = <<RecordingReplay(recording)>>
                        /\ UNCHANGED <<log, recordingPerRegister>>
                   ELSE /\ trace' = <<>>
                        /\ Returns("dance.history.recording.play", shouldRecord', maxLog)

\* recording_play_resume with the register's recording read again before
\* every replay.
recording_play_resume_reading_again(maxLog) ==
  /\ pc = "await"
  /\ call.op = "dance.history.recording.play"
  /\ frame' = [frame EXCEPT !.i = @ + 1,
                            !.recording = registerRecording[call.register]]
  /\ IF PlayLoopContinues(frame.i + 1, call.repetitions)
     THEN /\ trace' = Append(trace, RecordingReplay(registerRecording[call.register]))
          /\ UNCHANGED <<log, recordingPerRegister, pc>>
     ELSE /\ Returns(call.op, shouldRecord, maxLog)
          /\ UNCHANGED trace
  /\ outcome' = NoOutcome
  /\ UNCHANGED toolVars
  /\ UNCHANGED <<registerRecording, call, shouldRecord, cancelRequested,
                 error, logAtCall>>

\* The awaited replay of line 160 completes: the loop goes on.
recording_play_resume(maxLog) ==
  /\ pc = "await"
  /\ call.op = "dance.history.recording.play"
  /\ frame' = [frame EXCEPT !.i = @ + 1]
  /\ IF PlayLoopContinues(frame.i + 1, call.repetitions)
     THEN /\ trace' = Append(trace, RecordingReplay(frame.recording))
          /\ UNCHANGED <<log, recordingPerRegister, pc>>
     ELSE /\ Returns(call.op, shouldRecord, maxLog)
          /\ UNCHANGED trace
  /\ outcome' = NoOutcome
  /\ UNCHANGED toolVars
  /\ UNCHANGED <<registerRecording, call, shouldRecord, cancelRequested,
                 error, logAtCall>>

\* The awaited replay of line 160 fails.
recording_play_rejected == AwaitThrows("dance.history.recording.play")

----------------------------------------------------------------------------
(* recording_start, lines 172-185, and recording_stop, lines 193-207.      *)
(* They are synchronous: a call runs to its end in one step, between       *)
(* commands or while an asynchronous command awaits a replay.              *)

\* Line 178: recordingPerRegister.has(register).
HasActiveRecording(rpr, register) == rpr[register].active

\* Line 182: recorder.startRecording(), an empty sub-log opened at the log
\* end.
startRecording(lg) == [active |-> TRUE, entries |-> <<>>, startedAt |-> Len(lg)]

\* Line 184: recordingPerRegister.set(register, recording).
SetActive(rpr, register, recording) == [rpr EXCEPT ![register] = recording]

\* DeleteActive without the deletion.
DeleteActiveForgotten(rpr, register) == rpr

\* Line 205: recordingPerRegister.delete(register).
DeleteActive(rpr, register) == [rpr EXCEPT ![register] = NoRecording]

\* Line 206: recording.complete(), the sub-log sealed into a recording.
Complete(recording, lg) ==
  [held |-> TRUE, entries |-> recording.entries,
   from |-> recording.startedAt, to |-> Len(lg)]

\* SetRecording keeping the recording the register already holds.
SetRecordingKeepingFirst(rr, register, recording) ==
  IF rr[register].held THEN rr ELSE [rr EXCEPT ![register] = recording]

\* Line 206: register.setRecording(...).
SetRecording(rr, register, recording) == [rr EXCEPT ![register] = recording]

\* A synchronous command returns: the dispatcher logs the invocation.
SyncReturns(op, register, rpr, maxLog) ==
  /\ Len(log) < maxLog
  /\ log' = Append(log, OwnEntry(op))
  /\ recordingPerRegister' = ActiveAppended(rpr, OwnEntry(op))
  /\ outcome' = [op |-> op, register |-> register, ok |-> TRUE, error |-> NoError]
  /\ UNCHANGED toolVars

\* A synchronous command throws.
SyncThrows(op, register, e) ==
  /\ outcome' = [op |-> op, register |-> register, ok |-> FALSE, error |-> e]
  /\ UNCHANGED toolVars
  /\ UNCHANGED <<log, recordingPerRegister, registerRecording>>

recording_start(maxLog) ==
  /\ pc \in {"idle", "await"}
  /\ \E register \in Registers :
       IF HasActiveRecording(recordingPerRegister, register)
       THEN SyncThrows("dance.history.recording.start", register,
                       [kind |-> "ArgumentError",
                        message |-> "a recording is already active",
                        about |-> "register"])
       ELSE /\ SyncReturns("dance.history.recording.start", register,
                           SetActive(recordingPerRegister, register,
                                     startRecording(log)),
                           maxLog)
            /\ UNCHANGED registerRecording
  /\ UNCHANGED <<pc, call, frame, shouldRecord, cancelRequested, error,
                 trace, logAtCall>>

recording_stop(maxLog) ==
  /\ pc \in {"idle", "await"}
  /\ \E register \in Registers :
       LET recording == recordingPerRegister[register]
       IN  IF ~HasActiveRecording(recordingPerRegister, register)
           THEN SyncThrows("dance.history.recording.stop", register,
                           [kind |-> "ArgumentError",
                            message |-> "no recording is active in the given register",
                            about |-> "register"])
           ELSE /\ registerRecording' =
                     SetRecording(registerRecording, register,
                                  Complete(recording, log))
                /\ SyncReturns("dance.history.recording.stop", register,
                               DeleteActive(recordingPerRegister, register),
                               maxLog)
  /\ UNCHANGED <<pc, call, frame, shouldRecord, cancelRequested, error,
                 trace, logAtCall>>

----------------------------------------------------------------------------
(* The dispatcher has reported the outcome of the asynchronous command:    *)
(* the invocation is over.                                                 *)

Reported ==
  /\ pc \in {"done", "failed"}
  /\ pc' = "idle"
  /\ call' = NoCall
  /\ frame' = NoFrame
  /\ shouldRecord' = TRUE
  /\ cancelRequested' = NotCancelled
  /\ error' = NoError
  /\ trace' = <<>>
  /\ logAtCall' = <<>>
  /\ outcome' = NoOutcome
  /\ UNCHANGED toolVars
  /\ UNCHANGED <<log, recordingPerRegister, registerRecording>>

----------------------------------------------------------------------------
(* Specifications. *)

\* repeat alone with live editing.
NextRepeat ==
  \/ LiveInput(LiveEntries, MaxLog)
  \/ RequestCancellation
  \/ Reported
  \/ repeat(MaxLog)
  \/ repeat_resume(MaxLog)
  \/ repeat_rejected

SpecRepeat == Init /\ [][NextRepeat]_vars

\* repeat_edit alone with live editing.
NextEdit ==
  \/ LiveInput(LiveEntries, MaxEditLog)
  \/ RequestCancellation
  \/ Reported
  \/ repeat_edit(MaxEditLog)
  \/ repeat_edit_resume(MaxEditLog)
  \/ repeat_edit_rejected

SpecEdit == Init /\ [][NextEdit]_vars

\* repeat_edit with live editing, every awaited replay settling in the end:
\* the replay awaited at line 134 completes unless it fails.
NextEditFair ==
  \/ LiveInput(CoreEntries, MaxEditLog)
  \/ RequestCancellation
  \/ Reported
  \/ repeat_edit(MaxEditLog)
  \/ repeat_edit_resume(MaxEditLog)
  \/ repeat_edit_rejected

SpecEditFair ==
  /\ Init
  /\ [][NextEditFair]_vars
  /\ WF_vars(repeat_edit_resume(MaxEditLog))

\* The recording commands with live editing.
NextRecording ==
  \/ LiveInput(RecordingEntries, MaxRecordingLog)
  \/ RequestCancellation
  \/ Reported
  \/ recording_start(MaxRecordingLog)
  \/ recording_stop(MaxRecordingLog)
  \/ recording_play(MaxRecordingLog)
  \/ recording_play_resume(MaxRecordingLog)
  \/ recording_play_rejected

SpecRecording == Init /\ [][NextRecording]_vars

\* All the commands.
Next ==
  \/ LiveInput(CoreEntries, MaxLog)
  \/ RequestCancellation
  \/ Reported
  \/ repeat(MaxLog)
  \/ repeat_resume(MaxLog)
  \/ repeat_rejected
  \/ repeat_edit(MaxLog)
  \/ repeat_edit_resume(MaxLog)
  \/ repeat_edit_rejected
  \/ recording_start(MaxLog)
  \/ recording_stop(MaxLog)
  \/ recording_play(MaxLog)
  \/ recording_play_resume(MaxLog)
  \/ recording_play_rejected

Spec == Init /\ [][Next]_vars

----------------------------------------------------------------------------
(* A cursor walked back and then forth, with live editing in between. *)

\* recorder.cursorFromEnd(): a walk of k steps each way starts.
CursorCreated ==
  /\ ~walk.created \/ (walk.back = walk.k /\ walk.forth = walk.k)
  /\ \E k \in 0..MaxWalk :
       walk' = [created |-> TRUE, pos |-> cursorFromEnd(log),
                origin |-> cursorFromEnd(log), log |-> log, k |-> k,
                back |-> 0, forth |-> 0]
  /\ UNCHANGED <<historyVars, runVars, batching>>

\* cursor.previous(), one of the k steps back.
WalkPrevious ==
  /\ walk.created
  /\ walk.back < walk.k
  /\ walk' = [walk EXCEPT !.pos = CursorPrevious(walk.pos).pos,
                          !.back = @ + 1]
  /\ UNCHANGED <<historyVars, runVars, batching>>

\* cursor.next(), one of the k steps forth.
WalkNext ==
  /\ walk.created
  /\ walk.back = walk.k
  /\ walk.forth < walk.k
  /\ walk' = [walk EXCEPT !.pos = CursorNext(log, walk.pos).pos,
                          !.forth = @ + 1]
  /\ UNCHANGED <<historyVars, runVars, batching>>

NextCursor ==
  \/ LiveInput(CoreEntries, MaxCursorLog)
  \/ CursorCreated
  \/ WalkPrevious
  \/ WalkNext

SpecCursor == Init /\ [][NextCursor]_vars

----------------------------------------------------------------------------
(* run and its function cache, lines 223-382. *)

\* Lines 255-270 and 276-280: the names of the exports, then "vscode".
ParameterNames == <<"Context", "vscode">>

\* The additional parameter names given to compileFunction; for run they are
\* the keys of the context (line 233).
AdditionalParameterNames == {<<>>, <<"$">>}

\* Lines 317-320: safeExpressions.some((re) => re.test(code)).
IsSafeExpression(code) == code \in {"i", "i + 1"}

\* Line 342: whether new AsyncFunction(...) accepts the code as a body.
Parses(code) == code # "return ("

\* Line 342: the function compiled from the code with the parameter list
\* parameterNames() followed by the additional names.
AsyncFunction(code, names) == [code |-> code, parameters |-> ParameterNames \o names]

DisabledError == "execution of arbitrary code is disabled"

ParseError == "cannot parse function body"

\* CompileFunction with the cache read before the test of line 326.
CompileFunctionCacheFirst(canRun, cache, t, code, names) ==
  IF cache[code].cached
  THEN [ok |-> TRUE, message |-> "",
        function |-> [code |-> code, parameters |-> cache[code].parameters],
        cache |-> [cache EXCEPT ![code].lastAccessTimestamp = t]]
  ELSE IF ~canRun /\ ~IsSafeExpression(code)
  THEN [ok |-> FALSE, message |-> DisabledError,
        function |-> AsyncFunction("", <<>>), cache |-> cache]
  ELSE IF ~Parses(code)
  THEN [ok |-> FALSE, message |-> ParseError,
        function |-> AsyncFunction("", <<>>), cache |-> cache]
  ELSE [ok |-> TRUE, message |-> "",
        function |-> AsyncFunction(code, names),
        cache |-> [cache EXCEPT ![code] =
                     [cached |-> TRUE,
                      parameters |-> AsyncFunction(code, names).parameters,
                      lastAccessTimestamp |-> t]]]

\* Lines 325-350: compileFunction(code, additionalParameterNames) at time
\* t. It returns [ok, message, function, cache]: ok = FALSE is a throw.
CompileFunction(canRun, cache, t, code, names) ==
  IF ~canRun /\ ~IsSafeExpression(code)
  THEN \* lines 326-328
       [ok |-> FALSE, message |-> DisabledError,
        function |-> AsyncFunction("", <<>>), cache |-> cache]
  ELSE IF cache[code].cached
  THEN \* lines 330-336
       [ok |-> TRUE, message |-> "",
        function |-> [code |-> code, parameters |-> cache[code].parameters],
        cache |-> [cache EXCEPT ![code].lastAccessTimestamp = t]]
  ELSE IF ~Parses(code)
  THEN \* lines 340-345
       [ok |-> FALSE, message |-> ParseError,
        function |-> AsyncFunction("", <<>>), cache |-> cache]
  ELSE \* lines 342-349
       [ok |-> TRUE, message |-> "",
        function |-> AsyncFunction(code, names),
        cache |-> [cache EXCEPT ![code] =
                     [cached |-> TRUE,
                      parameters |-> AsyncFunction(code, names).parameters,
                      lastAccessTimestamp |-> t]]]

\* Lines 232-234: the loop of run over strings[k..], with the functions
\* compiled so far. A throw of compileFunction ends it.
RECURSIVE RunCompile(_, _, _, _, _, _, _)
RunCompile(canRun, cache, t, strings, names, k, functions) ==
  IF k > Len(strings)
  THEN [ok |-> TRUE, message |-> "", functions |-> functions, cache |-> cache]
  ELSE LET one == CompileFunction(canRun, cache, t, strings[k], names)
       IN  IF ~one.ok
           THEN [ok |-> FALSE, message |-> one.message,
                 functions |-> functions, cache |-> one.cache]
           ELSE RunCompile(canRun, one.cache, t, strings, names, k + 1,
                           Append(functions, one.function))

\* The number of advances the clock has made.
Ticks == (now \div DefaultOlderThanMs) + (now % DefaultOlderThanMs)

\* Time passes: Date.now() grows by a millisecond or by the default age.
Tick ==
  /\ Ticks < MaxTicks
  /\ \E d \in {1, DefaultOlderThanMs} : now' = now + d
  /\ compiled' = NoCompiled
  /\ UNCHANGED <<historyVars, walk, batching, canRunArbitraryCode, functionCache>>

compileFunction ==
  /\ \E code \in Codes, names \in AdditionalParameterNames :
       LET got == CompileFunction(canRunArbitraryCode, functionCache, now,
                                  code, names)
       IN  /\ functionCache' = got.cache
           /\ compiled' = [op |-> "compileFunction", codes |-> <<code>>,
                           names |-> names, ok |-> got.ok,
                           message |-> got.message,
                           functions |-> IF got.ok THEN <<got.function>>
                                         ELSE <<>>]
  /\ UNCHANGED <<historyVars, walk, batching, canRunArbitraryCode, now>>

\* Lines 223-250: run(strings, context) up to the calls of the functions.
run ==
  /\ \E strings \in {<<c>> : c \in Codes}
                      \cup {<<c, d>> : c \in Codes, d \in Codes},
        names \in AdditionalParameterNames :
       LET got == RunCompile(canRunArbitraryCode, functionCache, now,
                             strings, names, 1, <<>>)
       IN  /\ functionCache' = got.cache
           /\ compiled' = [op |-> "run", codes |-> strings, names |-> names,
                           ok |-> got.ok, message |-> got.message,
                           functions |-> IF got.ok THEN got.functions
                                         ELSE <<>>]
  /\ UNCHANGED <<historyVars, walk, batching, canRunArbitraryCode, now>>

\* Lines 364-381: clearCache(olderThanMs).
ClearCache(cache, t, olderThanMs) ==
  IF olderThanMs = 0
  THEN [code \in Codes |-> NotCached]
  ELSE [code \in Codes |->
          IF cache[code].cached
             /\ cache[code].lastAccessTimestamp < t - olderThanMs
          THEN NotCached
          ELSE cache[code]]

clearCache ==
  /\ \E olderThanMs \in {0, 1, DefaultOlderThanMs} :
       functionCache' = ClearCache(functionCache, now, olderThanMs)
  /\ compiled' = [NoCompiled EXCEPT !.op = "clearCache"]
  /\ UNCHANGED <<historyVars, walk, batching, canRunArbitraryCode, now>>

\* Lines 300-302: run.disable().
disable ==
  /\ canRunArbitraryCode' = FALSE
  /\ compiled' = [NoCompiled EXCEPT !.op = "disable"]
  /\ UNCHANGED <<historyVars, walk, batching, functionCache, now>>

NextRun ==
  \/ Tick
  \/ compileFunction
  \/ run
  \/ clearCache
  \/ disable

SpecRun == Init /\ [][NextRun]_vars

----------------------------------------------------------------------------
(* commands, lines 397-482. *)

NoValue == "undefined"

\* The values of command.Any given to commands: a name, a tuple, an object,
\* or something else; `name` is "" when it is no string.
AnyCommands ==
  {[kind |-> "string", name |-> ".seek", args |-> NoValue],
   [kind |-> "tuple", name |-> "dance.prompt", args |-> "a"],
   [kind |-> "object", name |-> "editor.fold", args |-> "b"],
   [kind |-> "string", name |-> "undo", args |-> NoValue],
   [kind |-> "string", name |-> "dance.nope", args |-> NoValue],
   [kind |-> "tuple", name |-> "", args |-> NoValue],
   [kind |-> "other", name |-> "", args |-> NoValue]}

\* Lines 433-435: a leading "." stands for "dance.".
WithDancePrefix(commandName) ==
  IF commandName = ".seek" THEN "dance.seek" ELSE commandName

\* Line 450: commandName.startsWith("dance.").
StartsWithDance(commandName) ==
  commandName \in {"dance.seek", "dance.prompt", "dance.nope"}

\* Line 437: the names of commandsByName.
CommandsByName == {"dance.seek", "dance.prompt"}

\* Line 444: descriptor.input, InputKind.None for a command without input.
InputKindOf(commandName) ==
  IF commandName = "dance.prompt" THEN "Text" ELSE "None"

\* Lines 439-442: what descriptor.getInput(...) resolves with; undefined
\* when the command takes no input or the input was not given.
InputsOf(commandName) ==
  IF InputKindOf(commandName) = "None" THEN {NoValue} ELSE {"text", NoValue}

\* Line 448: new CommandState(descriptor, input, extension, commandArguments).
CommandState(commandName, input, commandArguments) ==
  [descriptor |-> commandName, input |-> input, args |-> commandArguments]

\* A batch of Dance commands (line 455, 463) and a command of its own
\* (line 458), told apart at line 470.
DanceBatch(states) ==
  [dance |-> TRUE, states |-> states, name |-> "", args |-> NoValue]

OwnBatch(commandName, commandArguments) ==
  [dance |-> FALSE, states |-> <<>>, name |-> commandName,
   args |-> commandArguments]

\* Lines 454-456 and 462-464: the pending batch, if any, is pushed.
Flushed(batches, currentBatch) ==
  IF Len(currentBatch) > 0
  THEN Append(batches, DanceBatch(currentBatch))
  ELSE batches

\* Flushed with the pending batch pushed after the command of its own.
OwnBatchPushedFirst(batches, currentBatch, commandName, commandArguments) ==
  Flushed(Append(batches, OwnBatch(commandName, commandArguments)), currentBatch)

\* Lines 454-458: the pending batch is flushed, then the command is pushed
\* as a batch of its own.
OwnBatchPushed(batches, currentBatch, commandName, commandArguments) ==
  Append(Flushed(batches, currentBatch), OwnBatch(commandName, commandArguments))

\* Lines 410-431: the name and arguments of a command, or the error thrown.
Parsed(command) ==
  IF command.kind = "string"
  THEN [ok |-> TRUE, name |-> command.name, args |-> NoValue, message |-> ""]
  ELSE IF command.kind = "tuple"
  THEN IF command.name = ""
       THEN [ok |-> FALSE, name |-> "", args |-> NoValue,
             message |-> "the first element of a command tuple must be a command name"]
       ELSE [ok |-> TRUE, name |-> command.name, args |-> command.args,
             message |-> ""]
  ELSE IF command.kind = "object"
  THEN IF command.name = ""
       THEN [ok |-> FALSE, name |-> "", args |-> NoValue,
             message |-> "the \"command\" property of a command object must be a command name"]
       ELSE [ok |-> TRUE, name |-> command.name, args |-> command.args,
             message |-> ""]
  ELSE [ok |-> FALSE, name |-> "", args |-> NoValue,
        message |-> "commands must be command names, {command: string, args: any} objects or arrays"]

\* Lines 404-460: the build loop from command i (1-based here) up to its
\* next await (pc = "input"), its throw (pc = "failed") or its end
\* (pc = "built").
RECURSIVE Build(_, _, _, _)
Build(cmds, i, batches, currentBatch) ==
  LET at == [pc |-> "built", i |-> i, batches |-> batches,
             currentBatch |-> currentBatch, message |-> ""]
  IN  IF i > Len(cmds)
      THEN at
      ELSE LET parsed == Parsed(cmds[i])
               commandName == WithDancePrefix(parsed.name)
           IN  IF ~parsed.ok
               THEN [at EXCEPT !.pc = "failed", !.message = parsed.message]
               ELSE IF commandName \in CommandsByName
               THEN [at EXCEPT !.pc = "input"]
               ELSE IF StartsWithDance(commandName)
               THEN [at EXCEPT !.pc = "failed",
                               !.message = "Dance command does not exist"]
               ELSE Build(cmds, i + 1,
                          OwnBatchPushed(batches, currentBatch, commandName,
                                         parsed.args),
                          <<>>)

\* Lines 462-471: after the build loop, the pending batch is pushed and the
\* execution of the batches starts.
Execution(st, batches, currentBatch) ==
  LET all == Flushed(batches, currentBatch)
  IN  [st EXCEPT !.batches = all, !.currentBatch = <<>>, !.b = 1,
                 !.pc = IF Len(all) > 0 THEN "execute" ELSE "done",
                 !.executed = IF Len(all) > 0 THEN <<all[1]>> ELSE <<>>]

\* The state of the invocation after the build loop went on from command i.
Built(st, i, batches, currentBatch) ==
  LET built == Build(st.commands, i, batches, currentBatch)
  IN  IF built.pc = "built"
      THEN Execution([st EXCEPT !.i = built.i], built.batches,
                     built.currentBatch)
      ELSE [st EXCEPT !.pc = built.pc, !.i = built.i,
                      !.batches = built.batches,
                      !.currentBatch = built.currentBatch,
                      !.message = built.message]

\* commands(...commands) is called and runs to its first await, its throw
\* or its return.
commands ==
  /\ batching.pc = "idle"
  /\ \E n \in 0..MaxCommands :
       \E cmds \in [1..n -> AnyCommands] :
         batching' = Built([NoBatching EXCEPT !.commands = cmds], 1, <<>>, <<>>)
  /\ UNCHANGED <<historyVars, walk, runVars>>

\* The getInput awaited at line 439 resolves: lines 444-448, and the build
\* loop goes on, or is left at line 445.
commands_input ==
  /\ batching.pc = "input"
  /\ LET parsed == Parsed(batching.commands[batching.i])
         commandName == WithDancePrefix(parsed.name)
     IN  \E input \in InputsOf(commandName) :
           IF InputKindOf(commandName) # "None" /\ input = NoValue
           THEN batching' = Execution(batching, batching.batches,
                                      batching.currentBatch)
           ELSE batching' =
                  Built(batching, batching.i + 1, batching.batches,
                        Append(batching.currentBatch,
                               CommandState(commandName, input, parsed.args)))
  /\ UNCHANGED <<historyVars, walk, runVars>>

\* Lines 470-478: the results a batch whose execution completed adds.
RECURSIVE Undefineds(_)
Undefineds(n) == IF n <= 0 THEN <<>> ELSE <<NoValue>> \o Undefineds(n - 1)

ResultsOf(batch, result) ==
  IF ~batch.dance THEN <<result>> ELSE Undefineds(Len(batch.states))

\* The execution awaited at line 471 or 473 completes: the results are
\* pushed and the next batch is executed, or commands returns.
commands_executed ==
  /\ batching.pc = "execute"
  /\ LET batch == batching.batches[batching.b]
         results == batching.results \o ResultsOf(batch, "result")
         last == batching.b = Len(batching.batches)
     IN  batching' =
           [batching EXCEPT
              !.results = results,
              !.b = @ + 1,
              !.pc = IF last THEN "done" ELSE "execute",
              !.executed = IF last THEN @
                           ELSE Append(@, batching.batches[batching.b + 1])]
  /\ UNCHANGED <<historyVars, walk, runVars>>

\* An awaited getInput or execution fails: commands rejects.
commands_rejected ==
  /\ batching.pc \in {"input", "execute"}
  /\ batching' = [batching EXCEPT !.pc = "failed", !.message = "rejected"]
  /\ UNCHANGED <<historyVars, walk, runVars>>

\* The caller has the result of commands.
commands_reported ==
  /\ batching.pc \in {"done", "failed"}
  /\ batching' = NoBatching
  /\ UNCHANGED <<historyVars, walk, runVars>>

NextCommands ==
  \/ commands
  \/ commands_input
  \/ commands_executed
  \/ commands_rejected
  \/ commands_reported

SpecCommands == Init /\ [][NextCommands]_vars

----------------------------------------------------------------------------
(* Helpers of the properties. *)

Max(S) == CHOOSE x \in S : \A y \in S : y <= x

Min(S) == CHOOSE x \in S : \A y \in S : x <= y

IsPrefix(s, t) == Len(s) <= Len(t) /\ s = SubSeq(t, 1, Len(s))

RECURSIVE Repeated(_, _)
Repeated(s, n) == IF n <= 0 THEN <<>> ELSE s \o Repeated(s, n - 1)

\* The positions of lg that hold a command entry whose descriptor is
\* replayable and whose identifier the filter matches.
Eligible(lg, filter) ==
  {p \in 0..(Len(lg) - 1) :
     /\ lg[p + 1].type = ExecuteCommand
     /\ lg[p + 1].ref \notin HistoryCommands
     /\ RegExpTest(ToRegExp(filter), lg[p + 1].ref)}

InRepeat == call.op = "dance.history.repeat"

InEdit == call.op = "dance.history.repeat.edit"

InPlay == call.op = "dance.history.recording.play"

----------------------------------------------------------------------------
(* Properties. *)

\* C1: when the log repeat is called on has an eligible entry matching the
\* filter, repeat does not fail in its search, every replay call it makes is
\* on the descriptor and with the argument of the eligible entry of greatest
\* position in that log, also after entries were appended during the awaits,
\* and when it returns it has made exactly `repetitions` calls.
C1_RepeatReplaysMostRecentMatch ==
  (InRepeat /\ Eligible(logAtCall, call.filter) # {}) =>
    LET e == logAtCall[Max(Eligible(logAtCall, call.filter)) + 1]
        replay == ReplayCall(-1, <<CommandEntry(e.ref, e.arg)>>)
    IN  /\ error.kind # "Error"
        /\ \A k \in 1..Len(trace) : trace[k] = replay
        /\ Len(trace) <= call.repetitions
        /\ pc = "await" => Len(trace) = frame.i + 1
        /\ pc = "done" => Len(trace) = call.repetitions

\* C1 witness: repeat has returned after two replays of an entry that was
\* not the last of the log, while a newer matching entry with another
\* argument was appended during the invocation.
C1_Witness ==
  /\ InRepeat
  /\ pc = "done"
  /\ call.repetitions = 2
  /\ Len(trace) = 2
  /\ Eligible(logAtCall, call.filter) # {}
  /\ Max(Eligible(logAtCall, call.filter)) < Len(logAtCall) - 1
  /\ \E p \in Eligible(log, call.filter) :
       /\ p >= Len(logAtCall)
       /\ log[p + 1] # logAtCall[Max(Eligible(logAtCall, call.filter)) + 1]

\* C2: when the log repeat is called on has no eligible entry matching the
\* filter (the empty log included), repeat fails with the error "no previous
\* command matching" followed by the filter, and makes no replay call.
C2_RepeatFailsWithoutMatch ==
  (InRepeat /\ Eligible(logAtCall, call.filter) = {}) =>
    /\ pc = "failed"
    /\ error = [kind |-> "Error", message |-> "no previous command matching",
                about |-> call.filter.source]
    /\ trace = <<>>
    /\ log = logAtCall

\* C2 witness: repeat has failed on a log that holds a command entry the
\* filter matches but whose descriptor is not replayable.
C2_Witness ==
  /\ InRepeat
  /\ pc = "failed"
  /\ error.kind = "Error"
  /\ \E p \in 1..Len(logAtCall) :
       /\ logAtCall[p].type = ExecuteCommand
       /\ RegExpTest(ToRegExp(call.filter), logAtCall[p].ref)
       /\ logAtCall[p].ref \in HistoryCommands

\* The entries appended to the log since the command in flight was called.
Added == SubSeq(log, Len(logAtCall) + 1, Len(log))

RepeatOwnEntry == OwnEntry("dance.history.repeat")

ModeChanges(lg, modeName) ==
  {p \in 0..(Len(lg) - 1) : lg[p + 1] = ModeEntry(modeName)}

\* The positions of lg that hold a change to insert mode with a change to
\* normal mode somewhere after it.
ClosedInserts(lg) ==
  {p \in ModeChanges(lg, "insert") :
     \E q \in ModeChanges(lg, "normal") : q > p}

\* C3: whenever the search of repeat_edit succeeds, the span it selects
\* starts right after the most recent change to insert mode that has a later
\* change to normal mode, and ends right before the first change to normal
\* mode after it.
C3_EditSpanIsMostRecentInsertToNormal ==
  (InEdit /\ frame.startCursor # Undefined) =>
    /\ ClosedInserts(logAtCall) # {}
    /\ LET ins == Max(ClosedInserts(logAtCall))
           nrm == Min({q \in ModeChanges(logAtCall, "normal") : q > ins})
       IN  /\ frame.startCursor = ins + 1
           /\ frame.endCursor = nrm - 1

\* One pass over the span from position `first` to position `last` of lg:
\* a replay call on each entry, in increasing order.
SpanPass(lg, first, last) ==
  [k \in 1..(last - first + 1) |->
     ReplayCall(first + k - 1, <<lg[first + k]>>)]

\* C4: once repeat_edit has located the span from startCursor to endCursor,
\* the replay calls it makes are, in order, those of `repetitions` passes
\* over the span, each pass calling Cursor.replay on every entry from the
\* start to the end inclusive in increasing order; when it returns all the
\* passes have been made.
C4_EditReplaysWholeSpanNTimes ==
  (InEdit /\ frame.startCursor # Undefined) =>
    LET pass == SpanPass(logAtCall, frame.startCursor, frame.endCursor)
        all == Repeated(pass, call.repetitions)
    IN  /\ IsPrefix(trace, all)
        /\ pc = "await" => trace # <<>>
        /\ pc = "done" => trace = all

\* C4 witness: repeat_edit has returned after two passes over a span of two
\* entries, with an entry appended to the log during the invocation.
C4_Witness ==
  /\ InEdit
  /\ pc = "done"
  /\ call.repetitions = 2
  /\ frame.endCursor = frame.startCursor + 1
  /\ Len(trace) = 4
  /\ Len(log) > Len(logAtCall)

IsStart(o) == o.op = "dance.history.recording.start"

IsStop(o) == o.op = "dance.history.recording.stop"

\* C5: a register has an active recording exactly from a recording_start
\* that succeeded on it to the next recording_stop that succeeds on it;
\* recording_start on a register succeeds if and only if the register has no
\* active recording, recording_stop if and only if it has one, and each
\* fails with an argument error otherwise.
C5_StartStopPreconditions ==
  [][\A r \in Registers :
       LET was == recordingPerRegister[r].active
           is == recordingPerRegister'[r].active
           here == outcome'.register = r
       IN  /\ (IsStart(outcome') /\ here) =>
                /\ outcome'.ok <=> ~was
                /\ is
                /\ ~outcome'.ok => outcome'.error.kind = "ArgumentError"
           /\ (IsStop(outcome') /\ here) =>
                /\ outcome'.ok <=> was
                /\ ~is
                /\ ~outcome'.ok => outcome'.error.kind = "ArgumentError"
           /\ ~((IsStart(outcome') \/ IsStop(outcome')) /\ here) => is = was
    ]_vars

\* C5 witness: a second recording_start on a register has failed, after a
\* recording_stop on it once succeeded, while the other register has no
\* active recording.
C5_Witness ==
  /\ IsStart(outcome)
  /\ ~outcome.ok
  /\ outcome.error.message = "a recording is already active"
  /\ registerRecording[outcome.register].held
  /\ \E r \in Registers : ~recordingPerRegister[r].active

\* The recording is the entries appended to the log from the start of its
\* session to its stop, in the order of the log.
IsLogSlice(recording, lg) ==
  /\ recording.from <= recording.to
  /\ recording.to <= Len(lg)
  /\ recording.entries = SubSeq(lg, recording.from + 1, recording.to)

\* C6: the recording a register holds is the entries appended between the
\* recording_start and the recording_stop of its session, in append order;
\* recording_play reads the recording the register holds when it is called,
\* every replay call it makes replays exactly that recording, and when it
\* returns it has made `repetitions` calls.
C6_PlayReplaysRecordedEntries ==
  [][/\ \A r \in Registers :
          registerRecording'[r].held => IsLogSlice(registerRecording'[r], log')
     /\ (pc = "idle" /\ call'.op = "dance.history.recording.play"
           /\ registerRecording[call'.register].held) =>
          /\ pc' # "failed"
          /\ frame'.recording = registerRecording[call'.register]
     /\ (call'.op = "dance.history.recording.play" /\ pc' \in {"await", "done"}) =>
          /\ frame'.recording.held
          /\ \A k \in 1..Len(trace') :
               trace'[k] = ReplayCall(-1, frame'.recording.entries)
          /\ Len(trace') <= call'.repetitions
          /\ pc' = "await" => Len(trace') = frame'.i + 1
          /\ pc' = "done" => Len(trace') = call'.repetitions
    ]_vars

\* C6 witness: recording_play is in its second replay of a recording that
\* holds a live entry, on a log with a live entry before the recording's
\* start and a live entry after its stop.
C6_Witness ==
  /\ InPlay
  /\ pc = "await"
  /\ Len(trace) = 2
  /\ \E k \in 1..Len(frame.recording.entries) :
       frame.recording.entries[k] \in RecordingEntries
  /\ \E p \in 1..frame.recording.from : log[p] \in RecordingEntries
  /\ \E p \in (frame.recording.to + 1)..Len(log) : log[p] \in RecordingEntries

\* C7: a register holds a recording only once a recording_stop has succeeded
\* on it; recording_play on a register that holds none fails with the
\* argument error naming the register, whatever the repetitions, and makes
\* no replay call.
C7_PlayWithoutRecordingFails ==
  [][/\ \A r \in Registers :
          (registerRecording'[r] # registerRecording[r]) =>
            (IsStop(outcome') /\ outcome'.ok /\ outcome'.register = r)
     /\ (pc = "idle" /\ call'.op = "dance.history.recording.play"
           /\ ~registerRecording[call'.register].held) =>
          /\ pc' = "failed"
          /\ error' = [kind |-> "ArgumentError",
                       message |-> "does not hold a recording",
                       about |-> call'.register]
          /\ trace' = <<>>
          /\ log' = log
    ]_vars

\* C7 witness: recording_play with two repetitions has failed on a register
\* whose recording was started and not yet stopped.
C7_Witness ==
  /\ InPlay
  /\ pc = "failed"
  /\ call.repetitions = 2
  /\ error.kind = "ArgumentError"
  /\ error.about = call.register
  /\ recordingPerRegister[call.register].active
  /\ trace = <<>>

\* C9 as stated: once cancellation was requested during repetition i of a
\* replay loop, no later repetition is started.
C9_Original ==
  (pc = "await" /\ cancelRequested.requested) =>
    frame.i = cancelRequested.during

\* Whether the loop of the command in flight has a replay left to call after
\* the one it awaits.
MoreToReplay ==
  IF InEdit
  THEN frame.cursor < frame.endCursor \/ frame.i + 1 < call.repetitions
  ELSE frame.i + 1 < call.repetitions

\* C9 amended: the replay loops do not read the cancellation signal. When
\* an awaited replay completes, the next replay is called if and only if the
\* loop has one left, whether or not cancellation was requested; the replay
\* calls already made are kept.
C9_LoopsIgnoreCancellation ==
  [][pc = "await" =>
       /\ IsPrefix(trace, trace')
       /\ frame' # frame =>
            /\ pc' = "await" <=> MoreToReplay
            /\ pc' = "await" => Len(trace') = Len(trace) + 1
            /\ pc' # "await" => (pc' = "done" /\ trace' = trace)
    ]_vars

\* C9 witness: cancellation was requested during the first repetition, and
\* the second repetition is running.
C9_Witness ==
  /\ pc = "await"
  /\ cancelRequested.requested
  /\ cancelRequested.during = 0
  /\ frame.i = 1
  /\ Len(trace) >= 2

\* C10: when an awaited replay fails, the command fails with the same
\* reason at once: no replay call is added, then or later in the
\* invocation, and a replay call is only ever added by the loop moving on.
C10_ReplayFailurePropagates ==
  [][/\ (error'.kind = "rejected" /\ error # error') =>
          /\ pc = "await"
          /\ pc' = "failed"
          /\ error' \in {Rejected(reason) : reason \in Rejections}
          /\ trace' = trace
          /\ frame' = frame
     /\ pc = "failed" => pc' = "idle"
     /\ (pc = "await" /\ trace' # trace) => (pc' = "await" /\ frame' # frame)
    ]_vars

\* C10 witness: repeat_edit with two repetitions over a span of two entries
\* has failed with the reason of its first replay, the only one it called.
C10_Witness ==
  /\ InEdit
  /\ pc = "failed"
  /\ error.kind = "rejected"
  /\ call.repetitions = 2
  /\ frame.endCursor > frame.startCursor
  /\ Len(trace) = 1

\* The entries of lg that are the dispatcher's entry of the command given.
OwnEntries(lg, op) == {p \in 1..Len(lg) : lg[p] = OwnEntry(op)}

\* C11: when recording_stop succeeds on a register, the register has no
\* active recording afterwards and holds the recording sealed from the
\* session just stopped, whatever it held before; a recording_start on a
\* register with no active recording succeeds, so the cycle can go round
\* again; and a recording_play called afterwards reads and replays the
\* recording the register holds then, the newest.
C11_StopStoresNewestRecording ==
  [][/\ \A r \in Registers :
          /\ (IsStop(outcome') /\ outcome'.ok /\ outcome'.register = r) =>
               /\ recordingPerRegister[r].active
               /\ ~recordingPerRegister'[r].active
               /\ registerRecording'[r] =
                    [held |-> TRUE,
                     entries |-> recordingPerRegister[r].entries,
                     from |-> recordingPerRegister[r].startedAt,
                     to |-> Len(log)]
          /\ (IsStart(outcome') /\ outcome'.register = r
                /\ ~recordingPerRegister[r].active) =>
               /\ outcome'.ok
               /\ recordingPerRegister'[r].active
               /\ recordingPerRegister'[r].startedAt = Len(log)
     /\ (pc = "idle" /\ call'.op = "dance.history.recording.play"
           /\ pc' = "await") =>
          /\ frame'.recording = registerRecording[call'.register]
          /\ trace' = <<ReplayCall(-1, registerRecording[call'.register].entries)>>
    ]_vars

\* C11 witness: recording_play awaits the replay of the second recording of
\* a register, made by a second round of recording_start and recording_stop
\* on it (the other register was never used) and shorter than the first,
\* which held a live entry.
C11_Witness ==
  /\ InPlay
  /\ pc = "await"
  /\ \A r \in Registers \ {call.register} :
       ~recordingPerRegister[r].active /\ ~registerRecording[r].held
  /\ Cardinality(OwnEntries(log, "dance.history.recording.stop")) = 2
  /\ frame.recording = registerRecording[call.register]
  /\ frame.recording.from > 0
  /\ \E p \in 1..frame.recording.from : log[p] \in RecordingEntries
  /\ \A k \in 1..Len(frame.recording.entries) :
       frame.recording.entries[k] \notin RecordingEntries
  /\ trace = <<ReplayCall(-1, frame.recording.entries)>>

\* C13: a cursor created at the log end, moved back with previous() k times
\* and then forth with next() k times, is at the position it was created at,
\* for every k (also k greater than the log length), when no entry was
\* appended to the log since its creation.
C13_CursorRoundTrip ==
  (walk.created /\ walk.back = walk.k /\ walk.forth = walk.k
     /\ log = walk.log) =>
    walk.pos = walk.origin

\* C13 witness: a walk of more steps than the log is long is over on a log
\* of two entries that has not changed since the cursor was created.
C13_Witness ==
  /\ walk.created
  /\ Len(log) = 2
  /\ log = walk.log
  /\ walk.k > Len(log)
  /\ walk.back = walk.k
  /\ walk.forth = walk.k
  /\ walk.pos = 2

\* C12: once run.disable() has been called, canRunArbitraryCode is false in
\* every later state, whatever is called; and then every call of
\* compileFunction or run on a code that matches no safe expression throws
\* "execution of arbitrary code is disabled", also when the code was
\* compiled and cached before the disable.
C12_DisableIsPermanent ==
  [][/\ ~canRunArbitraryCode => ~canRunArbitraryCode'
     /\ compiled'.op = "disable" => ~canRunArbitraryCode'
     /\ (~canRunArbitraryCode /\ compiled'.op \in {"compileFunction", "run"}
           /\ \E k \in 1..Len(compiled'.codes) :
                ~IsSafeExpression(compiled'.codes[k])) =>
          /\ ~compiled'.ok
          /\ compiled'.message = DisabledError
          /\ compiled'.functions = <<>>
    ]_vars

\* C12 witness: after the disable, compileFunction has thrown on a code
\* that matches no safe expression and is in the cache.
C12_Witness ==
  /\ ~canRunArbitraryCode
  /\ compiled.op = "compileFunction"
  /\ ~compiled.ok
  /\ compiled.message = DisabledError
  /\ functionCache[compiled.codes[1]].cached

\* C19: the function compileFunction(code, names) returns is one compiled
\* with the parameter list parameterNames() followed by the names given.
C19_CompiledWithGivenNames ==
  (compiled.op = "compileFunction" /\ compiled.ok) =>
    compiled.functions[1].parameters = ParameterNames \o compiled.names

\* The commands of the batches, one after another: [name, args, dance].
RECURSIVE Flat(_)
Flat(batches) ==
  IF batches = <<>>
  THEN <<>>
  ELSE LET batch == Head(batches)
           these == IF batch.dance
                    THEN [k \in 1..Len(batch.states) |->
                            [name |-> batch.states[k].descriptor,
                             args |-> batch.states[k].args, dance |-> TRUE]]
                    ELSE <<[name |-> batch.name, args |-> batch.args,
                            dance |-> FALSE]>>
       IN  these \o Flat(Tail(batches))

\* The k-th command given, as it is built: its name with the Dance prefix,
\* its arguments, and whether it is a Dance command.
Given(k) ==
  LET command == batching.commands[k]
      commandName == WithDancePrefix(command.name)
  IN  [name |-> commandName,
       args |-> IF command.kind = "string" THEN NoValue ELSE command.args,
       dance |-> commandName \in CommandsByName]

\* C17: once commands has built its commands, the built commands are the
\* first commands given, in the order given (all of them unless a Dance
\* command was left without its input); consecutive Dance commands are in
\* one batch and every other command is a batch of its own; the batches are
\* executed one after another in that order, each awaited before the next;
\* and when commands returns the results hold one result per built command,
\* in the order given.
C17_CommandsRunInOrder ==
  (batching.pc \in {"execute", "done"}) =>
    LET flat == Flat(batching.batches)
        isLast == batching.pc = "done"
        ran == IF isLast THEN Len(batching.batches) ELSE batching.b
    IN  /\ Len(flat) <= Len(batching.commands)
        /\ \A k \in 1..Len(flat) : flat[k] = Given(k)
        /\ Len(flat) < Len(batching.commands) =>
             /\ Given(Len(flat) + 1).dance
             /\ InputKindOf(Given(Len(flat) + 1).name) # "None"
        /\ \A j \in 1..Len(batching.batches) :
             /\ batching.batches[j].dance => Len(batching.batches[j].states) > 0
             /\ (j > 1 /\ batching.batches[j].dance) =>
                  ~batching.batches[j - 1].dance
        /\ batching.executed = SubSeq(batching.batches, 1, ran)
        /\ batching.results =
             [k \in 1..Len(Flat(SubSeq(batching.batches, 1,
                                       IF isLast THEN ran ELSE ran - 1))) |->
                IF flat[k].dance THEN NoValue ELSE "result"]
        /\ isLast => Len(batching.results) = Len(flat)

\* C17 witness: commands has returned three results for two Dance commands
\* followed by another command: a batch of two, then a batch of its own.
C17_Witness ==
  /\ batching.pc = "done"
  /\ Len(batching.commands) = 3
  /\ Len(batching.batches) = 2
  /\ Len(batching.batches[1].states) = 2
  /\ ~batching.batches[2].dance
  /\ batching.results = <<NoValue, NoValue, "result">>
  /\ Len(batching.executed) = 2

\* Whether the search of the repeat_edit in flight has succeeded.
EditFound == InEdit /\ frame.startCursor # Undefined

\* C14 as stated: the span end captured for a change to normal mode is the
\* position right after that entry in the log.
C14_Original ==
  EditFound =>
    /\ frame.endCursor >= 1
    /\ logAtCall[frame.endCursor] = ModeEntry("normal")

\* C14 amended: the span end captured for a change to normal mode is the
\* position right before that entry in the log: the entry one position
\* after the span end is the change to normal mode, and the span end itself
\* is none of the entries after it.
C14_EndIsBeforeNormalEntry ==
  EditFound =>
    /\ frame.endCursor >= 0
    /\ frame.endCursor + 1 < Len(logAtCall)
    /\ logAtCall[frame.endCursor + 2] = ModeEntry("normal")

\* C14 witness: the search has succeeded on a log of two changes to normal
\* mode, and its span end is the entry right before the earlier one.
C14_Witness ==
  /\ EditFound
  /\ pc = "await"
  /\ Cardinality(ModeChanges(logAtCall, "normal")) = 2
  /\ frame.endCursor + 1 = Min(ModeChanges(logAtCall, "normal"))
  /\ logAtCall[frame.endCursor + 1].type = ExecuteCommand

EditSearchError ==
  [kind |-> "Error", message |-> "cannot find switch to normal or insert mode",
   about |-> ""]

\* C15: when the log repeat_edit is called on holds no change to insert
\* mode with a change to normal mode after it (the empty log, a log with no
\* change to normal mode, a log whose changes to insert mode all come after
\* the last change to normal mode), repeat_edit fails with the error "cannot
\* find switch to normal or insert mode" and makes no replay call.
C15_EditFailsWithoutSpan ==
  (InEdit /\ ClosedInserts(logAtCall) = {}) =>
    /\ pc = "failed"
    /\ error = EditSearchError
    /\ trace = <<>>
    /\ log = logAtCall

\* C15 witness: repeat_edit has failed on a log that holds changes to both
\* modes, every change to insert mode after the last change to normal mode.
C15_Witness ==
  /\ InEdit
  /\ pc = "failed"
  /\ error = EditSearchError
  /\ ModeChanges(logAtCall, "normal") # {}
  /\ ModeChanges(logAtCall, "insert") # {}
  /\ Min(ModeChanges(logAtCall, "insert")) > Max(ModeChanges(logAtCall, "normal"))

\* C18: whenever the search of repeat_edit succeeds, start <= end, the entry
\* at position start - 1 is a change to insert mode, the entry at position
\* end + 1 is a change to normal mode, and every replay call is made on a
\* position from start to end, so on neither of the two.
C18_SpanIsDelimited ==
  EditFound =>
    /\ frame.startCursor <= frame.endCursor
    /\ frame.startCursor >= 1
    /\ logAtCall[frame.startCursor] = ModeEntry("insert")
    /\ frame.endCursor + 1 < Len(logAtCall)
    /\ logAtCall[frame.endCursor + 2] = ModeEntry("normal")
    /\ \A k \in 1..Len(trace) :
         /\ trace[k].pos >= frame.startCursor
         /\ trace[k].pos <= frame.endCursor
    /\ call.repetitions > 0 => trace # <<>>

\* C18 witness: repeat_edit has returned after replaying a span of one
\* entry, itself a change to insert mode, between a change to insert mode
\* and a change to normal mode.
C18_Witness ==
  /\ EditFound
  /\ pc = "done"
  /\ frame.startCursor = frame.endCursor
  /\ logAtCall[frame.startCursor + 1] = ModeEntry("insert")
  /\ Len(trace) = call.repetitions
  /\ call.repetitions = 2

\* C16: with entries appended to the log while repeat_edit awaits a replay,
\* the start and the end located by the search do not move, every replay
\* call is made on a position from start to end and replays the entry the
\* log held there when repeat_edit was called, never an entry appended
\* since; each completed replay moves the walk one position forth or on to
\* the next repetition, and the invocation comes to its end, having made
\* `repetitions` passes when it returns.
C16_EditUnaffectedByLiveInput ==
  /\ [](EditFound =>
          /\ IsPrefix(logAtCall, log)
          /\ frame.endCursor < Len(logAtCall)
          /\ \A k \in 1..Len(trace) :
               /\ trace[k].pos \in frame.startCursor..frame.endCursor
               /\ trace[k].entries = <<logAtCall[trace[k].pos + 1]>>
          /\ pc = "done" =>
               Len(trace) = call.repetitions
                              * (frame.endCursor - frame.startCursor + 1))
  /\ [][(InEdit /\ pc = "await" /\ pc' # "idle") =>
          /\ frame'.startCursor = frame.startCursor
          /\ frame'.endCursor = frame.endCursor
          /\ logAtCall' = logAtCall
          /\ frame' # frame =>
               \/ frame'.i = frame.i /\ frame'.cursor = frame.cursor + 1
               \/ frame'.i > frame.i
      ]_vars
  /\ (InEdit /\ pc = "await") ~> (pc \in {"done", "failed"})

\* C16 witness: repeat_edit has returned after two passes over its span,
\* while a change to insert mode and a change to normal mode, a newer span's
\* delimiters, were appended to the log during its awaits.
C16_Witness ==
  /\ EditFound
  /\ pc = "done"
  /\ call.repetitions = 2
  /\ Len(trace) = 2 * (frame.endCursor - frame.startCursor + 1)
  /\ Added = <<ModeEntry("insert"), ModeEntry("normal")>>

\* C20: recording_play reads the register's recording once, when it is
\* called: the recording it replays does not change during the invocation,
\* every replay call replays that recording, also after a recording_stop
\* has stored another recording on the same register during an await, and
\* the register then holds the recording that stop has stored.
C20_PlayKeepsRecordingReadAtStart ==
  [][/\ (pc = "idle" /\ call'.op = "dance.history.recording.play"
           /\ pc' = "await") =>
          frame'.recording = registerRecording[call'.register]
     /\ (InPlay /\ pc = "await" /\ pc' # "idle") =>
          /\ frame'.recording = frame.recording
          /\ \A k \in 1..Len(trace') :
               trace'[k] = ReplayCall(-1, frame.recording.entries)
          /\ (IsStop(outcome') /\ outcome'.ok
                /\ outcome'.register = call.register) =>
               /\ registerRecording'[call.register].held
               /\ registerRecording'[call.register].entries =
                    recordingPerRegister[call.register].entries
               /\ registerRecording'[call.register].from =
                    recordingPerRegister[call.register].startedAt
    ]_vars

\* C20 witness: recording_play is in its second repetition, replaying the
\* recording it read when it was called, while its register holds another
\* recording, started and stopped during the first repetition.
C20_Witness ==
  /\ InPlay
  /\ pc = "await"
  /\ frame.i = 1
  /\ Len(trace) = 2
  /\ trace[2] = ReplayCall(-1, frame.recording.entries)
  /\ registerRecording[call.register].entries # frame.recording.entries
  /\ registerRecording[call.register].from >= Len(logAtCall)

====
